---- MODULE Spec2Model ----
(***************************************************************************)
(* texlog: a lexer and a recursive-descent parser for TeX/LaTeX logs.      *)
(* The model follows src/src/lexer.rs, src/src/parser.rs, src/src/log.rs   *)
(* and src/src/text.rs.  Strings are sequences of one-character strings,   *)
(* offsets are 0-based as in the source, sequences are 1-based as in TLA+. *)
(***************************************************************************)
EXTENDS Integers, Sequences, FiniteSets, TLC

VARIABLES source, lexer, pulled, parser, pc, info, stack, log, query

vars == <<source, lexer, pulled, parser, pc, info, stack, log, query>>

(***************************************************************************)
(* Bounds of the model.                                                    *)
(***************************************************************************)
\* number of pieces an input log of the parser is assembled from
MaxPieces == 5
\* number of records an input log of the parser is assembled from
MaxLogPieces == 6
\* number of pieces an input text of the lexer is assembled from
MaxLexPieces == 4
\* pulls made on the lexer after it returned None for the first time
MaxExtraPulls == 2
\* diagnostics one node may collect before the model stops following it
MaxDiags == 6
\* characters of a source text given to row_col / index
MaxTextLen == 4
\* number of pieces a log with a prelude and error lines is assembled from
MaxLinePieces == 4
\* number of pieces the text of a node given to the recogniser is assembled from
MaxMsgPieces == 5

(***************************************************************************)
(* Characters.                                                             *)
(***************************************************************************)
NL == "\n"

Letters ==
    {"a", "b", "c", "d", "e", "f", "g", "h", "i", "k", "l", "n", "o", "p", "r",
     "t", "u", "v", "w", "x", "F", "L", "O", "P", "T", "U", "W", "X", "U+00E9"}

\* char::is_alphabetic
IsAlphabetic(c) == c \in Letters

\* char::is_whitespace
CharIsWhitespace(c) == c \in {" ", "\t", NL}

\* UTF-8 width of a character in bytes
Utf8Len(c) == IF c = "U+00E9" THEN 2 ELSE 1

\* the concatenation of a sequence of strings
RECURSIVE Concat(_)
Concat(ss) == IF ss = <<>> THEN <<>> ELSE Head(ss) \o Concat(Tail(ss))

\* all texts made of at most n pieces of P
RECURSIVE Texts(_, _)
Texts(P, n) ==
    IF n = 0 THEN {<<>>}
    ELSE LET S == Texts(P, n - 1) IN S \cup {t \o p : t \in S, p \in P}

(***************************************************************************)
(* Lexer (src/src/lexer.rs).                                               *)
(***************************************************************************)
Token(kind, str, pos) == [kind |-> kind, str |-> str, pos |-> pos]

\* Lexer::current / Lexer::peak: the character at cursor + offset, or None
None == "None"
LexPeak(chars, cursor, offset) ==
    LET index == cursor + offset IN
    IF index < 0 \/ index >= Len(chars) THEN None ELSE chars[index + 1]

LexCurrent(chars, cursor) == LexPeak(chars, cursor, 0)

\* Lexer::is_whitespace
IsWhitespace(c) == CharIsWhitespace(c) /\ c # NL

\* Lexer::is_word_char
IsWordChar(c) == IsAlphabetic(c)

\* Lexer::consume_whitespace: the cursor after the run
RECURSIVE ConsumeWhitespace(_, _)
ConsumeWhitespace(chars, cursor) ==
    LET c == LexCurrent(chars, cursor) IN
    IF c = None \/ ~IsWhitespace(c) THEN cursor
    ELSE ConsumeWhitespace(chars, cursor + 1)

\* Lexer::consume_word: the cursor after the run
RECURSIVE ConsumeWord(_, _)
ConsumeWord(chars, cursor) ==
    LET c == LexCurrent(chars, cursor) IN
    IF c = None \/ ~IsWordChar(c) THEN cursor
    ELSE ConsumeWord(chars, cursor + 1)

\* Lexer::at_path_start
AtPathStart(chars, cursor) ==
    LET c == LexCurrent(chars, cursor) IN
    \/ c = "." /\ LexPeak(chars, cursor, 1) = "/"
    \/ c = "/"

\* the strings that cut a path, consume_path's list
PathMarkers ==
    { <<NL, "D", "i", "c", "t", "i", "o", "n", "a", "r", "y", ":">>,
      <<NL, "P", "a", "c", "k", "a", "g", "e", ":">>,
      <<NL, "F", "i", "l", "e", ":">>,
      <<NL, "L", "a", "T", "e", "X">>,
      <<NL, "D", "o", "c", "u", "m", "e", "n", "t", " ", "C", "l", "a", "s", "s", ":">> }

\* self.chars[self.cursor..].starts_with(s)
StartsWith(chars, cursor, s) ==
    /\ cursor + Len(s) <= Len(chars)
    /\ SubSeq(chars, cursor + 1, cursor + Len(s)) = s

\* the characters that end a path, consume_path's break arms
PathTerminators == {"(", ")", "<", ">", "[", "]", "\\"}

\* consume_path, first loop: the leading run of path starts
RECURSIVE PathPrefix(_, _)
PathPrefix(chars, cursor) ==
    IF AtPathStart(chars, cursor) THEN PathPrefix(chars, cursor + 1) ELSE cursor

\* consume_path, second loop: the characters pushed and the cursor reached
RECURSIVE PathLoop(_, _, _)
PathLoop(chars, cursor, acc) ==
    LET c == LexCurrent(chars, cursor) IN
    CASE c = None -> [str |-> acc, cursor |-> cursor]
      [] c \in PathTerminators -> [str |-> acc, cursor |-> cursor]
      [] c \notin PathTerminators /\ c # None
         /\ (\E m \in PathMarkers : StartsWith(chars, cursor, m)) ->
            [str |-> acc, cursor |-> cursor]
      [] OTHER ->
            IF c = NL /\ LexPeak(chars, cursor, 1) # NL
            THEN PathLoop(chars, cursor + 1, acc)
            ELSE IF CharIsWhitespace(c)
            THEN [str |-> acc, cursor |-> cursor]
            ELSE PathLoop(chars, cursor + 1, Append(acc, c))

\* consume_path without the push of the leading run
ConsumePathNoPrefix(chars, cursor) ==
    PathLoop(chars, PathPrefix(chars, cursor), <<>>)

\* Lexer::consume_path
ConsumePath(chars, cursor) ==
    LET p == PathPrefix(chars, cursor) IN
    PathLoop(chars, p, SubSeq(chars, cursor + 1, p))

\* Option::None where a token is expected
NoToken == [kind |-> "None", str |-> <<>>, pos |-> 0]

\* Lexer::next_token with an empty queue: the token and the cursor after it
NextToken(chars, cursor) ==
    LET c == LexCurrent(chars, cursor) IN
    CASE c = None -> [tok |-> NoToken, cursor |-> cursor]
      [] c = "(" -> [tok |-> Token("LeftParen", <<>>, cursor), cursor |-> cursor + 1]
      [] c = ")" -> [tok |-> Token("RightParen", <<>>, cursor), cursor |-> cursor + 1]
      [] c = "!" -> [tok |-> Token("ExclamationMark", <<>>, cursor), cursor |-> cursor + 1]
      [] c = NL -> [tok |-> Token("Newline", <<>>, cursor), cursor |-> cursor + 1]
      [] OTHER ->
            IF IsWordChar(c)
            THEN LET e == ConsumeWord(chars, cursor) IN
                 [tok |-> Token("Word", SubSeq(chars, cursor + 1, e), cursor), cursor |-> e]
            ELSE IF IsWhitespace(c)
            THEN LET e == ConsumeWhitespace(chars, cursor) IN
                 [tok |-> Token("Whitespace", SubSeq(chars, cursor + 1, e), cursor),
                  cursor |-> e]
            ELSE IF AtPathStart(chars, cursor)
            THEN LET r == ConsumePath(chars, cursor) IN
                 [tok |-> Token("Path", r.str, cursor), cursor |-> r.cursor]
            ELSE [tok |-> Token("Punctuation", <<c>>, cursor), cursor |-> cursor + 1]

\* Lexer::new
NewLexer(chars) == [chars |-> chars, cursor |-> 0, queue |-> <<>>, placed_eof |-> FALSE]

\* placed_eof left unset
PlaceEofForgotten(lx) == lx

\* setting placed_eof when the end of the input is first met
PlaceEof(lx) == [lx EXCEPT !.placed_eof = TRUE]

\* Iterator::next for Lexer: the item yielded and the lexer afterwards
LexerNext(lx) ==
    IF lx.queue # <<>>
    THEN [item |-> Head(lx.queue), lexer |-> [lx EXCEPT !.queue = Tail(lx.queue)]]
    ELSE LET r == NextToken(lx.chars, lx.cursor) IN
         IF r.tok # NoToken
         THEN [item |-> r.tok, lexer |-> [lx EXCEPT !.cursor = r.cursor]]
         ELSE IF ~lx.placed_eof
         THEN [item |-> Token("EOF", <<>>, lx.cursor), lexer |-> PlaceEof(lx)]
         ELSE [item |-> NoToken, lexer |-> lx]

\* tokenize: the lexer collected until it yields None
RECURSIVE Collect(_)
Collect(lx) ==
    LET r == LexerNext(lx) IN
    IF r.item = NoToken THEN <<>> ELSE <<r.item>> \o Collect(r.lexer)

tokenize(chars) == Collect(NewLexer(chars))

\* the textual rendering of a token (Token::to_string)
Rendering(t) ==
    CASE t.kind = "LeftParen" -> <<"(">>
      [] t.kind = "RightParen" -> <<")">>
      [] t.kind = "ExclamationMark" -> <<"!">>
      [] t.kind = "Newline" -> <<NL>>
      [] t.kind = "EOF" -> <<>>
      [] OTHER -> t.str

(***************************************************************************)
(* Parser (src/src/parser.rs).                                             *)
(***************************************************************************)
Min(a, b) == IF a < b THEN a ELSE b
Max(a, b) == IF a > b THEN a ELSE b

\* Parser::peak: the index is clamped into the token vector
Peak(tokens, cursor, offset) ==
    tokens[Max(0, Min(cursor + offset, Len(tokens) - 1)) + 1]

\* Parser::current
Current(tokens, cursor) == Peak(tokens, cursor, 0)

\* self.tokens[from..to] rendered and concatenated (0-based, to excluded)
RECURSIVE RenderRange(_, _, _)
RenderRange(tokens, from, to) ==
    IF from >= to THEN <<>>
    ELSE Rendering(tokens[from + 1]) \o RenderRange(tokens, from + 1, to)

\* str::trim
RECURSIVE TrimStart(_)
TrimStart(s) ==
    IF s # <<>> /\ CharIsWhitespace(Head(s)) THEN TrimStart(Tail(s)) ELSE s

RECURSIVE TrimEnd(_)
TrimEnd(s) ==
    IF s # <<>> /\ CharIsWhitespace(s[Len(s)])
    THEN TrimEnd(SubSeq(s, 1, Len(s) - 1)) ELSE s

Trim(s) == TrimEnd(TrimStart(s))

\* Parser::consume on a cursor past the last token: debug_assert!(false) in a
\* debug build, cursor -= 1 then cursor += 1 in a release build
ConsumePastEnd(dbg) == IF dbg THEN "panic" ELSE "hang"

\* the loop of Parser::consume_diagnostic_message: how it ends and where
RECURSIVE MessageLoop(_, _, _, _)
MessageLoop(tokens, cursor, paren_level, dbg) ==
    LET this == Current(tokens, cursor).kind
        next == Peak(tokens, cursor, 1).kind
    IN
    IF this = "RightParen" /\ paren_level = 0
    THEN [st |-> "ok", cursor |-> cursor]
    ELSE IF this = "Newline" /\ next = "Newline"
    THEN [st |-> "ok", cursor |-> cursor + 1]
    ELSE IF cursor >= Len(tokens)
    THEN [st |-> ConsumePastEnd(dbg), cursor |-> cursor]
    ELSE MessageLoop(tokens, cursor + 1,
                     CASE this = "LeftParen" -> paren_level + 1
                       [] this = "RightParen" -> paren_level - 1
                       [] OTHER -> paren_level,
                     dbg)

\* Parser::consume_diagnostic_message
ConsumeDiagnosticMessage(tokens, cursor, dbg) ==
    LET r == MessageLoop(tokens, cursor, 0, dbg) IN
    [st |-> r.st, cursor |-> r.cursor,
     message |-> IF r.st = "ok" THEN Trim(RenderRange(tokens, cursor, r.cursor))
                 ELSE <<>>]

\* TokenKind values the recogniser compares with
Word(s) == [kind |-> "Word", str |-> s]
Punctuation(c) == [kind |-> "Punctuation", str |-> <<c>>]
KindOf(t) == [kind |-> t.kind, str |-> t.str]

W_pdfTeX == <<"p", "d", "f", "T", "e", "X">>
W_warning == <<"w", "a", "r", "n", "i", "n", "g">>
W_LaTeX == <<"L", "a", "T", "e", "X">>
W_Font == <<"F", "o", "n", "t">>
W_Warning == <<"W", "a", "r", "n", "i", "n", "g">>
W_Overfull == <<"O", "v", "e", "r", "f", "u", "l", "l">>
W_Underfull == <<"U", "n", "d", "e", "r", "f", "u", "l", "l">>
W_hbox == <<"h", "b", "o", "x">>
W_Package == <<"P", "a", "c", "k", "a", "g", "e">>

\* TexDiagnosticKind
DiagKind(tag, arg) == [tag |-> tag, arg |-> arg]

\* TexDiagnostic { kind, message }; header and body are ghost fields: the offset
\* of the token the recogniser fired on, and the offsets of the first token
\* consume_diagnostic_message went over and of the token it stopped on
TexDiagnostic(tokens, kind, m, header, from) ==
    [kind |-> kind, message |-> m.message, header |-> tokens[header + 1].pos,
     body |-> [from |-> Current(tokens, from).pos, to |-> Current(tokens, m.cursor).pos]]

NoDiag == [kind |-> DiagKind("None", <<>>), message |-> <<>>, header |-> 0,
           body |-> [from |-> 0, to |-> 0]]

\* the outcome of consume_diag_if_diag
DiagNone(cursor) == [st |-> "none", cursor |-> cursor, diag |-> NoDiag]

\* a warning arm of consume_diag_if_diag after its prefix matched
DiagWarning(tokens, cursor, dbg, kind) ==
    LET m == ConsumeDiagnosticMessage(tokens, cursor, dbg) IN
    [st |-> IF m.st = "ok" THEN "some" ELSE m.st, cursor |-> m.cursor,
     diag |-> TexDiagnostic(tokens, kind, m, cursor, cursor)]

\* GenericError arm: the title loop, the cursor on the line's Newline or EOF
RECURSIVE TitleEnd(_, _)
TitleEnd(tokens, cursor) ==
    IF Current(tokens, cursor).kind \in {"Newline", "EOF"} THEN cursor
    ELSE TitleEnd(tokens, cursor + 1)

\* GenericError arm: the look back for the start of the error message;
\* -1 when the cursor would go below 0
RECURSIVE LookBack(_, _)
LookBack(tokens, cursor) ==
    LET prev == Peak(tokens, cursor, -1).kind IN
    IF \/ prev = "Newline" /\ Peak(tokens, cursor, -2).kind = "Newline"
       \/ prev = "EOF"
       \/ prev = "Path"
    THEN cursor
    ELSE IF cursor = 0 THEN -1
    ELSE LookBack(tokens, cursor - 1)

\* self.cursor -= 1 on cursor 0: an overflow panic in a debug build; a release
\* build wraps, peak clamps to token 0 and the look back goes on
CursorUnderflow(dbg) == IF dbg THEN "panic" ELSE "hang"

\* GenericError arm of consume_diag_if_diag
DiagGenericError(tokens, cursor, dbg) ==
    LET err_start == cursor
        end == TitleEnd(tokens, cursor + 1)
        start == LookBack(tokens, err_start)
    IN
    IF err_start + 2 > end
    THEN [st |-> "panic", cursor |-> end, diag |-> NoDiag]
    ELSE IF start < 0
    THEN [st |-> CursorUnderflow(dbg), cursor |-> 0, diag |-> NoDiag]
    ELSE LET m == ConsumeDiagnosticMessage(tokens, start, dbg) IN
         [st |-> IF m.st = "ok" THEN "some" ELSE m.st, cursor |-> m.cursor,
          diag |-> TexDiagnostic(
                       tokens,
                       DiagKind("GenericError", RenderRange(tokens, err_start + 2, end)),
                       m, err_start, start)]

\* Parser::consume_diag_if_diag
ConsumeDiagIfDiag(tokens, cursor, dbg) ==
    LET cur == Current(tokens, cursor)
        P(k) == KindOf(Peak(tokens, cursor, k))
    IN
    IF Peak(tokens, cursor, -1).kind # "Newline" THEN DiagNone(cursor)
    ELSE CASE KindOf(cur) = Word(W_pdfTeX) ->
                IF P(2) # Word(W_warning) \/ P(3) # Punctuation(":")
                THEN DiagNone(cursor)
                ELSE DiagWarning(tokens, cursor, dbg, DiagKind("PdfLatex", <<>>))
           [] KindOf(cur) = Word(W_LaTeX) ->
                IF P(2) # Word(W_Font) \/ P(4) # Word(W_Warning) \/ P(5) # Punctuation(":")
                THEN DiagNone(cursor)
                ELSE DiagWarning(tokens, cursor, dbg, DiagKind("Font", <<>>))
           [] KindOf(cur) = Word(W_Overfull) ->
                IF P(2) # Punctuation("\\") \/ P(3) # Word(W_hbox)
                THEN DiagNone(cursor)
                ELSE DiagWarning(tokens, cursor, dbg, DiagKind("OverfullHbox", <<>>))
           [] KindOf(cur) = Word(W_Underfull) ->
                IF P(2) # Punctuation("\\") \/ P(3) # Word(W_hbox)
                THEN DiagNone(cursor)
                ELSE DiagWarning(tokens, cursor, dbg, DiagKind("UnderfullHbox", <<>>))
           [] KindOf(cur) = Word(W_Package) ->
                IF P(2).kind # "Word" \/ P(4) # Word(W_Warning) \/ P(5) # Punctuation(":")
                THEN DiagNone(cursor)
                ELSE DiagWarning(tokens, cursor, dbg, DiagKind("Package", P(2).str))
           [] cur.kind = "ExclamationMark" -> DiagGenericError(tokens, cursor, dbg)
           [] OTHER -> DiagNone(cursor)

\* Parser::new
NewParser(tokens) == [cursor |-> 0, tokens |-> tokens]

\* the file of a node opened on something else than a path
NoPath == <<"no path...">>

\* parse_node before its loop: the locals of the call and the cursor after the
\* opening paren; turns and repeated are ghost fields: the (cursor,
\* unclosed_text_parens) pairs the turns of the loop started on, and whether a
\* turn started on a pair an earlier turn of this call started on
EnterNode(tokens, cursor) ==
    [file |-> IF Current(tokens, cursor + 1).kind = "Path"
              THEN Current(tokens, cursor + 1).str ELSE NoPath,
     messages |-> <<>>,
     start_pos |-> Current(tokens, cursor).pos,
     calls |-> <<>>,
     diagnostics |-> <<>>,
     unclosed_text_parens |-> 0,
     turns |-> {},
     repeated |-> FALSE]

\* the Node parse_node returns on the closing paren end_token
Node(frame, end_token) ==
    [file |-> frame.file, messages |-> frame.messages,
     start_pos |-> frame.start_pos, end_pos |-> end_token.pos,
     calls |-> frame.calls, diagnostics |-> frame.diagnostics]

NoNode == [file |-> <<>>, messages |-> <<>>, start_pos |-> 0, end_pos |-> 0,
           calls |-> <<>>, diagnostics |-> <<>>]

NoLog == [info |-> <<>>, root_node |-> NoNode]

NoQuery == [op |-> "none"]

(***************************************************************************)
(* Log (src/src/log.rs).                                                   *)
(***************************************************************************)
Reverse(s) == [i \in 1..Len(s) |-> s[Len(s) + 1 - i]]

\* the first sub node trace_from_node's loop returns from, 0 when there is none
FirstEnclosing(index, calls) ==
    LET hits == {i \in 1..Len(calls) :
                    calls[i].start_pos <= index /\ index <= calls[i].end_pos}
    IN IF hits = {} THEN 0 ELSE CHOOSE i \in hits : \A j \in hits : i <= j

\* Log::trace_from_node
RECURSIVE trace_from_node(_, _)
trace_from_node(index, root_node) ==
    LET i == FirstEnclosing(index, root_node.calls) IN
    IF i = 0 THEN <<root_node.file>>
    ELSE Append(trace_from_node(index, root_node.calls[i]), root_node.file)

\* trace_at without trace.reverse()
trace_at_unreversed(lg, index) == trace_from_node(index, lg.root_node)

\* Log::trace_at
trace_at(lg, index) == Reverse(trace_from_node(index, lg.root_node))

\* TracedTexDiagnostic
Traced(call_stack, d) == [call_stack |-> call_stack, diagnostic |-> d]

\* the node's own diagnostics pushed with the call stack of the parent
OwnDiagnosticsStaleStack(call_stack, node) ==
    [i \in 1..Len(node.diagnostics) |->
        [call_stack |-> SubSeq(call_stack, 1, Len(call_stack) - 1),
         diagnostic |-> node.diagnostics[i]]]

\* visit_node of DiagnosticGetter: the node's own diagnostics, pushed with the
\* call stack as it is after the node's file was pushed
OwnDiagnostics(call_stack, node) ==
    [i \in 1..Len(node.diagnostics) |-> Traced(call_stack, node.diagnostics[i])]

\* DiagnosticGetter as Visitor: visit_node, and do_visit_node over calls[i..]
RECURSIVE VisitNode(_, _), DoVisitNode(_, _, _)
VisitNode(getter, node) ==
    LET pushed == [getter EXCEPT !.call_stack = Append(@, node.file)]
        own == [pushed EXCEPT
                   !.diagsnostics = @ \o OwnDiagnostics(pushed.call_stack, node)]
        visited == DoVisitNode(own, node.calls, 1)
    IN [visited EXCEPT !.call_stack = SubSeq(@, 1, Len(@) - 1)]

DoVisitNode(getter, calls, i) ==
    IF i > Len(calls) THEN getter
    ELSE DoVisitNode(VisitNode(getter, calls[i]), calls, i + 1)

\* Log::get_diagnostics
get_diagnostics(lg) ==
    VisitNode([call_stack |-> <<>>, diagsnostics |-> <<>>], lg.root_node).diagsnostics

(***************************************************************************)
(* The program: parse_source on an input log, step by step, then the       *)
(* queries on the Log it returned.                                         *)
(***************************************************************************)
\* small pieces: every way to put parens, newlines, words and `!` lines together
ParserPieces ==
    { <<"(", ".", "/", "a">>, <<"(", ".", "/", "b">>, <<")">>, <<"(">>, <<NL>>,
      <<"!", " ", "e">>, <<" ", "x">> }

\* whole records of a log: the opening of a file, its closing, and an error
\* block between blank lines
LogPieces ==
    { <<"(", ".", "/", "a">>, <<"(", ".", "/", "b">>, <<")">>,
      <<NL, NL, "!", " ", "e", NL, NL>> }

Init ==
    /\ source \in Texts(ParserPieces, MaxPieces) \cup Texts(LogPieces, MaxLogPieces)
    /\ lexer = NewLexer(<<>>)
    /\ pulled = <<>>
    /\ parser = NewParser(<<>>)
    /\ pc = "start"
    /\ info = <<>>
    /\ stack = <<>>
    /\ log = NoLog
    /\ query = NoQuery

\* parse_source: tokenize, Parser::new
ParseSource ==
    /\ pc = "start"
    /\ parser' = NewParser(tokenize(source))
    /\ pc' = "parse"
    /\ UNCHANGED <<source, lexer, pulled, info, stack, log, query>>

Tokens == parser.tokens
Cur == Current(parser.tokens, parser.cursor)

\* Parser::parse meets the opening of the root node
AtRoot == Cur.kind = "LeftParen" /\ Peak(Tokens, parser.cursor, 1).kind = "Path"

\* Parser::parse, one turn of its loop: a token goes to info
ParseInfo ==
    /\ pc = "parse"
    /\ ~AtRoot
    /\ Cur.kind # "EOF"
    /\ info' = info \o Rendering(Cur)
    /\ parser' = [parser EXCEPT !.cursor = @ + 1]
    /\ UNCHANGED <<source, lexer, pulled, pc, stack, log, query>>

\* Parser::parse on EOF: todo!()
ParseTodo ==
    /\ pc = "parse"
    /\ Cur.kind = "EOF"
    /\ pc' = "panic"
    /\ UNCHANGED <<source, lexer, pulled, parser, info, stack, log, query>>

\* Parser::parse leaves its loop and calls parse_node for the root
ParseRoot ==
    /\ pc = "parse"
    /\ AtRoot
    /\ stack' = <<EnterNode(Tokens, parser.cursor)>>
    /\ parser' = [parser EXCEPT !.cursor = @ + 1]
    /\ pc' = "parse_node"
    /\ UNCHANGED <<source, lexer, pulled, info, log, query>>

\* the innermost running call of parse_node
Top == stack[Len(stack)]

\* parse_node, start of a turn of its loop: consume_diag_if_diag, in a debug
\* build (dbg) or a release build
Diag(dbg) == ConsumeDiagIfDiag(Tokens, parser.cursor, dbg)

\* what consume_diag_if_diag returns when it returns, the same in both builds
Recognised == Diag(TRUE)

\* the locals after diagnostics.push(diag)
Pushed ==
    LET turn == <<parser.cursor, Top.unclosed_text_parens>> IN
    [Top EXCEPT !.diagnostics = IF Recognised.st = "some"
                                THEN Append(@, Recognised.diag) ELSE @,
                !.repeated = @ \/ turn \in Top.turns,
                !.turns = @ \cup {turn}]

\* the token parse_node's match looks at
Matched == Current(Tokens, Recognised.cursor)

InLoop ==
    /\ pc = "parse_node"
    /\ Recognised.st \in {"none", "some"}
    /\ Recognised.st = "some" => Len(Top.diagnostics) < MaxDiags

SetTop(frame) == [stack EXCEPT ![Len(stack)] = frame]

\* parse_node: consume_diag_if_diag does not return
ParseNodeAbort ==
    /\ pc = "parse_node"
    /\ \E dbg \in BOOLEAN :
          /\ Diag(dbg).st \in {"panic", "hang"}
          /\ pc' = Diag(dbg).st
          /\ parser' = [parser EXCEPT !.cursor = Diag(dbg).cursor]
    /\ UNCHANGED <<source, lexer, pulled, info, stack, log, query>>

\* parse_node: LeftParen before a Path, the recursive call
ParseNodeCall ==
    /\ InLoop
    /\ Matched.kind = "LeftParen"
    /\ Peak(Tokens, Recognised.cursor, 1).kind = "Path"
    /\ stack' = Append(SetTop(Pushed), EnterNode(Tokens, Recognised.cursor))
    /\ parser' = [parser EXCEPT !.cursor = Recognised.cursor + 1]
    /\ UNCHANGED <<source, lexer, pulled, pc, info, log, query>>

\* the arms of parse_node's match that add to messages
TextArm(frame, t) ==
    CASE t.kind = "LeftParen" ->
            [frame EXCEPT !.messages = @ \o <<"(">>,
                          !.unclosed_text_parens = @ + 1]
      [] t.kind = "RightParen" ->
            [frame EXCEPT !.messages = @ \o <<")">>,
                          !.unclosed_text_parens = @ - 1]
      [] t.kind = "ExclamationMark" -> [frame EXCEPT !.messages = @ \o <<"!">>]
      [] t.kind = "Newline" -> [frame EXCEPT !.messages = @ \o <<NL>>]
      [] OTHER -> [frame EXCEPT !.messages = @ \o t.str]

\* parse_node: a token of the node's text
ParseNodeText ==
    /\ InLoop
    /\ \/ Matched.kind = "LeftParen" /\ Peak(Tokens, Recognised.cursor, 1).kind # "Path"
       \/ Matched.kind = "RightParen" /\ Pushed.unclosed_text_parens > 0
       \/ Matched.kind \in {"Path", "Word", "Whitespace", "ExclamationMark",
                            "Punctuation", "Newline"}
    /\ stack' = SetTop(TextArm(Pushed, Matched))
    /\ parser' = [parser EXCEPT !.cursor = Recognised.cursor + 1]
    /\ UNCHANGED <<source, lexer, pulled, pc, info, log, query>>

\* parse_node: the closing paren, the node is returned to the caller
ParseNodeReturn ==
    /\ InLoop
    /\ Matched.kind = "RightParen"
    /\ Pushed.unclosed_text_parens = 0
    /\ parser' = [parser EXCEPT !.cursor = Recognised.cursor + 1]
    /\ LET node == Node(Pushed, Matched) IN
       IF Len(stack) = 1
       THEN /\ log' = [info |-> info, root_node |-> node]
            /\ stack' = <<>>
            /\ pc' = "done"
       ELSE /\ stack' = [i \in 1..(Len(stack) - 1) |->
                           IF i = Len(stack) - 1
                           THEN [stack[i] EXCEPT !.calls = Append(@, node)]
                           ELSE stack[i]]
            /\ UNCHANGED <<log, pc>>
    /\ UNCHANGED <<source, lexer, pulled, info, query>>

\* parse_node: EOF in the middle of a file
ParseNodeEof ==
    /\ InLoop
    /\ Matched.kind = "EOF"
    /\ stack' = SetTop(Pushed)
    /\ parser' = [parser EXCEPT !.cursor = Recognised.cursor]
    /\ pc' = "panic"
    /\ UNCHANGED <<source, lexer, pulled, info, log, query>>

\* Log::trace_at on the returned Log (the queries do not change the Log: one
\* query is followed per run)
TraceAt ==
    /\ pc = "done"
    /\ query = NoQuery
    /\ \E index \in 0..(Len(source) + 1) :
          query' = [op |-> "trace_at", index |-> index, result |-> trace_at(log, index)]
    /\ UNCHANGED <<source, lexer, pulled, parser, pc, info, stack, log>>

\* Log::get_diagnostics on the returned Log
GetDiagnostics ==
    /\ pc = "done"
    /\ query = NoQuery
    /\ query' = [op |-> "get_diagnostics", result |-> get_diagnostics(log)]
    /\ UNCHANGED <<source, lexer, pulled, parser, pc, info, stack, log>>

Next ==
    \/ ParseSource
    \/ ParseInfo
    \/ ParseTodo
    \/ ParseRoot
    \/ ParseNodeAbort
    \/ ParseNodeCall
    \/ ParseNodeText
    \/ ParseNodeReturn
    \/ ParseNodeEof
    \/ TraceAt
    \/ GetDiagnostics

Spec == Init /\ [][Next]_vars

(***************************************************************************)
(* The tree of a Log, for the statements below: a node is addressed by the *)
(* sequence of indices in calls that leads to it from the root.            *)
(***************************************************************************)
RECURSIVE Addrs(_)
Addrs(node) ==
    {<<>>} \cup UNION {{<<i>> \o a : a \in Addrs(node.calls[i])} : i \in 1..Len(node.calls)}

RECURSIVE NodeAt(_, _)
NodeAt(node, a) == IF a = <<>> THEN node ELSE NodeAt(node.calls[Head(a)], Tail(a))

\* the files from the root down to the node at a
RECURSIVE FilesTo(_, _)
FilesTo(node, a) ==
    <<node.file>> \o (IF a = <<>> THEN <<>> ELSE FilesTo(node.calls[Head(a)], Tail(a)))

Root == log.root_node

Encloses(node, offset) == node.start_pos <= offset /\ offset <= node.end_pos

\* the nodes of the returned tree whose range encloses the offset
EnclosingAddrs(offset) == {a \in Addrs(Root) : Encloses(NodeAt(Root, a), offset)}

C2_TraceOutsideRootEmpty ==
    (query.op = "trace_at" /\ ~Encloses(Root, query.index)) => query.result = <<>>

\* the nesting of one node: its own range, its children inside it, its children
\* disjoint and in increasing order
NodeNested(n) ==
    /\ n.start_pos < n.end_pos
    /\ \A i \in 1..Len(n.calls) :
          n.start_pos < n.calls[i].start_pos /\ n.calls[i].end_pos < n.end_pos
    /\ \A i, j \in 1..Len(n.calls) :
          i < j => n.calls[i].end_pos < n.calls[j].start_pos

\* C3: in every tree parse returns, every node has start_pos < end_pos, every
\* child lies strictly inside its parent, and the children of a node are
\* pairwise disjoint and in increasing offset order.
C3_TreeNesting ==
    pc = "done" => \A a \in Addrs(Root) : NodeNested(NodeAt(Root, a))

\* C4: in every tree parse returns, every diagnostic is held by the deepest
\* node whose range encloses the offset of the diagnostic's header token.
C4_DiagnosticInDeepestNode ==
    pc = "done" =>
        \A a \in Addrs(Root) :
            \A k \in 1..Len(NodeAt(Root, a).diagnostics) :
                LET h == NodeAt(Root, a).diagnostics[k].header IN
                /\ Encloses(NodeAt(Root, a), h)
                /\ \A b \in EnclosingAddrs(h) : Len(b) <= Len(a)

\* the diagnostics of the tree, each named by its node and its index there
DiagRefs == {<<a, k>> : a \in Addrs(Root), k \in 1..MaxDiags} \cap
            {r \in Addrs(Root) \X (1..MaxDiags) :
                 r[2] <= Len(NodeAt(Root, r[1]).diagnostics)}

\* a comes before b in pre-order: a is a proper prefix of b, or a turns to an
\* earlier sibling where they part
PreOrderBefore(a, b) ==
    \/ Len(a) < Len(b) /\ SubSeq(b, 1, Len(a)) = a
    \/ \E k \in 1..Len(a) :
          /\ k <= Len(b)
          /\ SubSeq(a, 1, k - 1) = SubSeq(b, 1, k - 1)
          /\ a[k] < b[k]

\* the place of diagnostic r in the pre-order listing
Place(r) ==
    1 + Cardinality({q \in DiagRefs :
                        \/ PreOrderBefore(q[1], r[1])
                        \/ q[1] = r[1] /\ q[2] < r[2]})

BangLines == {p \in 1..(Len(source) - 1) : source[p + 1] = "!" /\ source[p] = NL}

\* the GenericError diagnostics of the tree recognised on the `!` at offset p
ErrorsAt(p) ==
    {r \in DiagRefs :
        LET d == NodeAt(Root, r[1]).diagnostics[r[2]] IN
        d.kind.tag = "GenericError" /\ d.header = p}

\* the `!` at p lies in the body of a diagnostic recognised earlier in the text
InEarlierBody(p) ==
    \E r \in DiagRefs :
        LET d == NodeAt(Root, r[1]).diagnostics[r[2]] IN
        d.header < p /\ d.body.from <= p /\ p < d.body.to

\* C6: every line of a file scope that begins with `!` and is not part of the
\* body of an earlier diagnostic yields exactly one GenericError, held by the
\* node of the enclosing scope.
C6_OneErrorPerBangLine ==
    pc = "done" =>
        \A p \in BangLines :
            (Root.start_pos < p /\ p < Root.end_pos /\ ~InEarlierBody(p)) =>
                /\ Cardinality(ErrorsAt(p)) = 1
                /\ \A r \in ErrorsAt(p) :
                      \A b \in EnclosingAddrs(p) : Len(b) <= Len(r[1])

\* C10: when Eof is reached while a file node is still open, parse aborts with
\* a fatal error: with the cursor on or past the Eof token and a call of
\* parse_node running, the parser is in parse_node's loop (whose next turn
\* panics) or has panicked.
C10_EofInsideNodeFatal ==
    (stack # <<>> /\ parser.cursor >= Len(Tokens) - 1) =>
        pc \in {"parse_node", "panic"}

(***************************************************************************)
(* The lexer pulled token by token (Iterator::next), on every text made of *)
(* a few pieces.                                                           *)
(***************************************************************************)
LexPieces ==
    { <<"(">>, <<")">>, <<"!">>, <<NL>>, <<" ">>, <<"a">>, <<".">>, <<"/">>, <<":">>,
      <<NL, "L", "a", "T", "e", "X">> }

InitLex ==
    /\ source \in Texts(LexPieces, MaxLexPieces)
    /\ lexer = NewLexer(source)
    /\ pulled = <<>>
    /\ parser = NewParser(<<>>)
    /\ pc = "lex"
    /\ info = <<>>
    /\ stack = <<>>
    /\ log = NoLog
    /\ query = NoQuery

\* the pulls that yielded None so far
NonePulls == Cardinality({i \in 1..Len(pulled) : pulled[i] = NoToken})

\* one call of Lexer::next
LexPull ==
    /\ pc = "lex"
    /\ NonePulls < MaxExtraPulls
    /\ lexer' = LexerNext(lexer).lexer
    /\ pulled' = Append(pulled, LexerNext(lexer).item)
    /\ UNCHANGED <<source, parser, pc, info, stack, log, query>>

NextLex == LexPull

SpecLex == InitLex /\ [][NextLex]_vars

\* the tokens yielded so far, and those before the Eof
Yielded == SelectSeq(pulled, LAMBDA t : t # NoToken)
BeforeEof == SelectSeq(Yielded, LAMBDA t : t.kind # "EOF")
EofPulled == \E i \in 1..Len(pulled) : pulled[i].kind = "EOF"

\* the characters of the input a token stands for: from its pos to the pos of
\* the token after it
Span(i) == SubSeq(source, Yielded[i].pos + 1, Yielded[i + 1].pos)

WithoutNewlines(s) == SelectSeq(s, LAMBDA c : c # NL)

Renderings == [i \in 1..Len(BeforeEof) |-> Rendering(BeforeEof[i])]

\* C7 as stated: the renderings of the tokens before the Eof, concatenated, are
\* the input text.
C7_TokenCompleteness == EofPulled => Concat(Renderings) = source

\* C7 amended: the renderings of the tokens before the Eof, concatenated, are the
\* input text without the newlines that lie inside the span of a Path token:
\* the spans tile the input, every token but a Path renders as its span, and a
\* Path renders as its span without newlines.
C7_CompleteButPathNewlines ==
    EofPulled =>
        /\ Yielded[1].pos = 0
        /\ \A i \in 1..Len(BeforeEof) :
              Rendering(BeforeEof[i]) =
                  IF BeforeEof[i].kind = "Path" THEN WithoutNewlines(Span(i)) ELSE Span(i)
        /\ Concat(Renderings) =
              Concat([i \in 1..Len(BeforeEof) |->
                         IF BeforeEof[i].kind = "Path"
                         THEN WithoutNewlines(Span(i)) ELSE Span(i)])

\* C7 witness: the whole text was lexed and a Path token goes on after a newline
C7_Witness ==
    /\ EofPulled
    /\ \E i \in 1..Len(BeforeEof) :
          /\ BeforeEof[i].kind = "Path"
          /\ WithoutNewlines(Span(i)) # Span(i)
          /\ Span(i)[Len(Span(i))] # NL

\* C8: the stream holds one Eof, after the last token and at the offset that is
\* the number of characters of the input; every pull after it yields None (and
\* None is only yielded after it); the positions of the tokens increase
\* strictly and each is the offset of the first character of its token.
C8_EofOnceAndPositions ==
    /\ \A i, j \in 1..Len(pulled) :
          (i < j /\ pulled[i].kind = "EOF") => pulled[j] = NoToken
    /\ \A j \in 1..Len(pulled) :
          pulled[j] = NoToken => \E i \in 1..(j - 1) : pulled[i].kind = "EOF"
    /\ \A i \in 1..Len(pulled) : pulled[i].kind = "EOF" => pulled[i].pos = Len(source)
    /\ \A i, j \in 1..Len(Yielded) : i < j => Yielded[i].pos < Yielded[j].pos
    /\ \A i \in 1..Len(BeforeEof) :
          /\ BeforeEof[i].pos < Len(source)
          /\ Rendering(BeforeEof[i]) # <<>>
          /\ source[BeforeEof[i].pos + 1] = Head(Rendering(BeforeEof[i]))

\* C8 witness: several tokens, the Eof, and a pull after it
C8_Witness ==
    /\ Len(BeforeEof) >= 3
    /\ EofPulled
    /\ NonePulls >= 1

(***************************************************************************)
(* SourceText (src/src/text.rs): a String is UTF-8, its offsets are bytes. *)
(***************************************************************************)
RECURSIVE ByteLen(_)
ByteLen(s) == IF s = <<>> THEN 0 ELSE Utf8Len(Head(s)) + ByteLen(Tail(s))

\* &self.text[..index]: the characters before byte index, when index is on a
\* character boundary and within the text; the slice panics otherwise
SliceTo(text, index) ==
    LET ks == {k \in 0..Len(text) : ByteLen(SubSeq(text, 1, k)) = index} IN
    IF ks = {} THEN [st |-> "panic", chars |-> <<>>]
    ELSE [st |-> "ok", chars |-> SubSeq(text, 1, CHOOSE k \in ks : TRUE)]

\* SourceText::row_col
row_col(text, index) ==
    LET slice == SliceTo(text, index)
        nls == {i \in 1..Len(slice.chars) : slice.chars[i] = NL}
        last_line_start == IF nls = {} THEN 0 ELSE CHOOSE i \in nls : \A j \in nls : j <= i
    IN
    IF slice.st = "panic" THEN [st |-> "panic", row |-> 0, col |-> 0]
    ELSE [st |-> "ok", row |-> 1 + Cardinality(nls), col |-> index - last_line_start + 1]

\* SourceText::index, the loops that find the row: the characters gone over
RECURSIVE FindRow(_, _, _)
FindRow(text, gone, rows) ==
    IF rows = 0 \/ gone >= Len(text) THEN gone
    ELSE IF text[gone + 1] = NL THEN FindRow(text, gone + 1, rows - 1)
    ELSE FindRow(text, gone + 1, rows)

\* SourceText::index
index(text, row, col) == FindRow(text, 0, Max(1, row) - 1) + (Max(1, col) - 1)

TextPieces == {<<"a">>, <<NL>>, <<"U+00E9">>}

InitText ==
    /\ source \in Texts(TextPieces, MaxTextLen)
    /\ lexer = NewLexer(<<>>)
    /\ pulled = <<>>
    /\ parser = NewParser(<<>>)
    /\ pc = "text"
    /\ info = <<>>
    /\ stack = <<>>
    /\ log = NoLog
    /\ query = NoQuery

\* row_col at an offset of the text
RowCol ==
    /\ pc = "text"
    /\ query = NoQuery
    /\ \E i \in 0..Len(source) :
          query' = [op |-> "row_col", index |-> i, result |-> row_col(source, i)]
    /\ UNCHANGED <<source, lexer, pulled, parser, pc, info, stack, log>>

\* index at the row and column row_col returned
Index ==
    /\ pc = "text"
    /\ query.op = "row_col"
    /\ query.result.st = "ok"
    /\ query' = [op |-> "index", index |-> query.index,
                 result |-> index(source, query.result.row, query.result.col)]
    /\ UNCHANGED <<source, lexer, pulled, parser, pc, info, stack, log>>

NextText == RowCol \/ Index

SpecText == InitText /\ [][NextText]_vars

\* C9: for every text and every offset i from 0 to its length, row_col(i)
\* returns a (row, column) pair and index of that pair is i.
C9_RoundTrip ==
    /\ query.op = "row_col" => query.result.st = "ok"
    /\ query.op = "index" => query.result = query.index

(***************************************************************************)
(* Logs with a prelude: text and paths before the root node, closed files, *)
(* error lines and error blocks (Parser::parse on the shapes of a log      *)
(* written by pdflatex).                                                   *)
(***************************************************************************)
LinePieces ==
    { <<".", "/", "x">>, <<"(", ".", "/", "a">>, <<"(", ".", "/", "b", ")">>,
      <<"(">>, <<")">>, <<NL, "!", " ", "e">>,
      <<NL, NL, "!", " ", "e", "(", NL, NL>>, <<" ", "x">> }

InitLines ==
    /\ source \in Texts(LinePieces, MaxLinePieces)
    /\ lexer = NewLexer(<<>>)
    /\ pulled = <<>>
    /\ parser = NewParser(<<>>)
    /\ pc = "start"
    /\ info = <<>>
    /\ stack = <<>>
    /\ log = NoLog
    /\ query = NoQuery

SpecLines == InitLines /\ [][Next]_vars

\* C11: when the top-level parse meets a Path token before any file scope has
\* been opened, parse fails and returns no Log, whatever tokens follow: no
\* finished parse has a Path token before the opening paren of its root.
C11_PathBeforeRootFatal ==
    pc = "done" =>
        \A i \in 1..Len(Tokens) :
            Tokens[i].pos < log.root_node.start_pos => Tokens[i].kind # "Path"

\* C13: parse halts after finitely many cursor steps on every input: the
\* rewind of a diagnostic, unclosed_text_parens and message consumption never
\* make parse_node go over the same tokens forever.  No call of parse_node
\* starts a turn of its loop on a cursor and paren count it already started a
\* turn on (the turns that follow depend on nothing else, so they would repeat
\* without end), and a node never holds more diagnostics than there are tokens.
C13_ParseHalts ==
    \A i \in 1..Len(stack) :
        /\ ~stack[i].repeated
        /\ Len(stack[i].diagnostics) <= Len(Tokens)

\* the parens of one kind between the opening and the closing paren of a node
\* of the returned tree, outside every child of the node
OwnParens(node, kind) ==
    Cardinality({i \in 1..Len(Tokens) :
                    /\ Tokens[i].kind = kind
                    /\ node.start_pos < Tokens[i].pos
                    /\ Tokens[i].pos < node.end_pos
                    /\ \A c \in 1..Len(node.calls) :
                           ~Encloses(node.calls[c], Tokens[i].pos)})

\* C14: a RightParen closes the current node only when no unmatched `(`
\* precedes it in that scope: in every node of a returned tree the LeftParen
\* and RightParen tokens between its opening and its closing paren and outside
\* every child are balanced, those inside the bodies of its diagnostics included.
C14_ClosedScopesBalanced ==
    pc = "done" =>
        \A a \in Addrs(Root) :
            OwnParens(NodeAt(Root, a), "LeftParen")
                = OwnParens(NodeAt(Root, a), "RightParen")

(***************************************************************************)
(* Rendering a traced diagnostic (impl ToString for TracedTexDiagnostic,   *)
(* src/src/log.rs).  The colour escapes are single invisible characters.   *)
(***************************************************************************)
\* longest error title or package name of a rendered diagnostic
MaxTitleLen == 3
\* widest terminal below the width of a TeX log
MaxWidth == 20

TEX_LOG_WIDTH == 78

\* impl ToString for TexDiagnosticKind
KindToString(kind) ==
    CASE kind.tag = "Font" -> <<"F", "o", "n", "t", " ", "W", "a", "r", "n", "i", "n", "g">>
      [] kind.tag = "Package" -> <<"P", "a", "c", "k", "a", "g", "e", " ", "(">> \o kind.arg \o <<")", " ", "W", "a", "r", "n", "i", "n", "g">>
      [] kind.tag = "UnderfullHbox" -> <<"U", "n", "d", "e", "r", "f", "u", "l", "l", " ", "H", "b", "o", "x">>
      [] kind.tag = "OverfullHbox" -> <<"O", "v", "e", "r", "f", "u", "l", "l", " ", "H", "b", "o", "x">>
      [] kind.tag = "PdfLatex" -> <<"P", "d", "f", "L", "a", "T", "e", "X", " ", "W", "a", "r", "n", "i", "n", "g">>
      [] kind.tag = "GenericError" -> <<"E", "r", "r", "o", "r", ":", " ">> \o kind.arg

\* TexDiagnostic::level as the colour of the title
TitleColor(kind) == IF kind.tag = "GenericError" THEN "Fg(Red)" ELSE "Fg(Yellow)"

Colors == {"Fg(Red)", "Fg(Yellow)", "Fg(Blue)", "Fg(Reset)"}

\* str::repeat
Repeat(c, n) == [i \in 1..n |-> c]

\* the lines of the call stack, each indented by its depth
RECURSIVE CallLines(_, _)
CallLines(call_stack, i) ==
    IF i >= Len(call_stack) THEN <<>>
    ELSE Repeat(" ", 2 * i) \o call_stack[i + 1] \o <<NL>>
             \o CallLines(call_stack, i + 1)

\* width - title.len() below zero: the overflow check of a debug build
\* panics; a release build wraps to a count of about 2^63, and "=".repeat
\* aborts on an allocation of that size
WidthUnderflow(dbg) ==
    [st |-> IF dbg THEN "panic" ELSE "abort", text |-> <<>>]

\* 0 - 1 for side_padding: the overflow check of a debug build panics; a
\* release build wraps to usize::MAX, and "=".repeat panics on the capacity
PaddingUnderflow(dbg) ==
    [st |-> "panic", text |-> <<>>]

\* TracedTexDiagnostic::to_string on a terminal of the given width
to_string(traced, width, dbg) ==
    LET title == KindToString(traced.diagnostic.kind) IN
    IF width < ByteLen(title) THEN WidthUnderflow(dbg)
    ELSE IF (width - ByteLen(title)) \div 2 < 1 THEN PaddingUnderflow(dbg)
    ELSE LET side_padding == (width - ByteLen(title)) \div 2 - 1 IN
         [st |-> "ok",
          text |-> <<TitleColor(traced.diagnostic.kind)>>
                   \o Repeat("=", side_padding) \o <<" ">> \o title \o <<" ">>
                   \o Repeat("=", side_padding)
                   \o Repeat("=", (width + ByteLen(title)) % 2)
                   \o <<NL, "Fg(Reset)">> \o traced.diagnostic.message
                   \o <<NL, NL, "Fg(Blue)">> \o CallLines(traced.call_stack, 0)
                   \o <<"Fg(Reset)">>]

\* the kinds a diagnostic can have, with names and titles of bounded length
RenderKinds ==
    {DiagKind(t, <<>>) : t \in {"Font", "UnderfullHbox", "OverfullHbox", "PdfLatex"}}
    \cup {DiagKind(t, a) : t \in {"Package", "GenericError"},
                           a \in Texts({<<"e">>}, MaxTitleLen)}

\* termion::terminal_size, or TEX_LOG_WIDTH when there is no terminal
Widths == (1..MaxWidth) \cup {TEX_LOG_WIDTH}

InitRender ==
    /\ source = <<>>
    /\ lexer = NewLexer(<<>>)
    /\ pulled = <<>>
    /\ parser = NewParser(<<>>)
    /\ pc = "render"
    /\ info = <<>>
    /\ stack = <<>>
    /\ log = NoLog
    /\ \E kind \in RenderKinds, call_stack \in {<<>>, << <<".", "/", "a">> >>} :
           query = [op |-> "traced",
                    traced |-> Traced(call_stack,
                                      [kind |-> kind, message |-> <<"e">>])]

\* to_string is called on the diagnostic
Render ==
    /\ pc = "render"
    /\ query.op = "traced"
    /\ \E width \in Widths, dbg \in BOOLEAN :
           query' = [op |-> "to_string", traced |-> query.traced, width |-> width,
                     result |-> to_string(query.traced, width, dbg)]
    /\ UNCHANGED <<source, lexer, pulled, parser, pc, info, stack, log>>

NextRender == Render

SpecRender == InitRender /\ [][NextRender]_vars

\* the visible characters of the first line of a rendered text
Banner(text) ==
    LET n == CHOOSE k \in 1..Len(text) :
                 text[k] = NL /\ \A j \in 1..(k - 1) : text[j] # NL
    IN SelectSeq(SubSeq(text, 1, n - 1), LAMBDA c : c \notin Colors)

\* C12: for every title length and every terminal width of at least 1, the
\* 78-column fallback included, rendering a diagnostic succeeds and the banner
\* line `=== title ===` has exactly as many visible characters as the width.
C12_BannerFillsWidth ==
    query.op = "to_string" =>
        /\ query.result.st = "ok"
        /\ Len(Banner(query.result.text)) = query.width

(***************************************************************************)
(* The diagnostic recogniser and message consumption on their own          *)
(* (Parser::consume_diag_if_diag, Parser::consume_diagnostic_message),     *)
(* called at a cursor inside a node.                                       *)
(***************************************************************************)
\* the shapes the warning arms are written for, as their comments spell them:
\* `pdfTeX warning:`, `LaTeX Font Warning:`, `Overfull \hbox`,
\* `Underfull \hbox`, `Package wrapfig Warning:`; an empty str stands for any
AnyWhitespace == [kind |-> "Whitespace", str |-> <<>>]
AnyWord == [kind |-> "Word", str |-> <<>>]

WarningTags == {"PdfLatex", "Font", "OverfullHbox", "UnderfullHbox", "Package"}

Rows ==
    [tag \in WarningTags |->
        CASE tag = "PdfLatex" ->
                 <<Word(W_pdfTeX), AnyWhitespace, Word(W_warning), Punctuation(":")>>
          [] tag = "Font" ->
                 <<Word(W_LaTeX), AnyWhitespace, Word(W_Font), AnyWhitespace,
                   Word(W_Warning), Punctuation(":")>>
          [] tag = "OverfullHbox" ->
                 <<Word(W_Overfull), AnyWhitespace, Punctuation("\\"), Word(W_hbox)>>
          [] tag = "UnderfullHbox" ->
                 <<Word(W_Underfull), AnyWhitespace, Punctuation("\\"), Word(W_hbox)>>
          [] tag = "Package" ->
                 <<Word(W_Package), AnyWhitespace, AnyWord, AnyWhitespace,
                   Word(W_Warning), Punctuation(":")>>]

\* a text the lexer turns into a token of the shape, and one it turns into a
\* token of another shape
SlotText(pat) ==
    CASE pat = AnyWhitespace -> <<" ">>
      [] pat = AnyWord -> <<"e">>
      [] OTHER -> pat.str

SlotOther(pat) ==
    CASE pat = AnyWhitespace -> <<":">>
      [] pat = AnyWord -> <<":">>
      [] pat.kind = "Word" -> <<"e">>
      [] OTHER -> <<";">>

\* the header of a warning with the slots chosen by keep as written and the
\* others changed
HeaderVariant(row, keep) ==
    Concat([i \in 1..Len(row) |->
               IF keep[i] THEN SlotText(row[i]) ELSE SlotOther(row[i])])

\* a line with a header or a near miss of one, after a Newline or not, and a
\* body that ends at a blank line
HeaderTexts ==
    UNION {{<<lead>> \o HeaderVariant(Rows[tag], keep) \o <<" ", "e", NL, NL>> :
               lead \in {NL, " "}, keep \in [1..Len(Rows[tag]) -> BOOLEAN]} :
           tag \in WarningTags}

MsgPieces == { <<"(">>, <<")">>, <<NL>>, <<"!">>, <<" ">>, <<"e">> }

\* the opening of the node the cursor is in
NodeOpening == <<"(", ".", "/", "a", " ">>

InitDiag ==
    /\ source \in {NodeOpening \o t : t \in Texts(MsgPieces, MaxMsgPieces) \cup HeaderTexts}
    /\ lexer = NewLexer(<<>>)
    /\ pulled = <<>>
    /\ parser = NewParser(tokenize(source))
    /\ pc = "recogniser"
    /\ info = <<>>
    /\ stack = <<>>
    /\ log = NoLog
    /\ query = NoQuery

\* the cursors parse_node can be at: after the opening paren and the path
NodeCursors == 2..(Len(Tokens) - 1)

\* consume_diagnostic_message called with the cursor at c
ConsumeMessageAt ==
    /\ pc = "recogniser"
    /\ query = NoQuery
    /\ \E c \in NodeCursors, dbg \in BOOLEAN :
           query' = [op |-> "consume_diagnostic_message", cursor |-> c,
                     result |-> ConsumeDiagnosticMessage(Tokens, c, dbg)]
    /\ UNCHANGED <<source, lexer, pulled, parser, pc, info, stack, log>>

\* consume_diag_if_diag called with the cursor at c
RecogniseAt ==
    /\ pc = "recogniser"
    /\ query = NoQuery
    /\ \E c \in NodeCursors, dbg \in BOOLEAN :
           query' = [op |-> "consume_diag_if_diag", cursor |-> c,
                     result |-> ConsumeDiagIfDiag(Tokens, c, dbg)]
    /\ UNCHANGED <<source, lexer, pulled, parser, pc, info, stack, log>>

NextDiag == ConsumeMessageAt \/ RecogniseAt

SpecDiag == InitDiag /\ [][NextDiag]_vars

\* the kind of the token at index j (0-based)
KindAt(j) == Current(Tokens, j).kind

\* `(` minus `)` among the tokens from index c up to, not including, index j
ParenLevel(c, j) ==
    Cardinality({k \in c..(j - 1) : KindAt(k) = "LeftParen"})
        - Cardinality({k \in c..(j - 1) : KindAt(k) = "RightParen"})

\* index j is a boundary of a message started at c: a RightParen at paren
\* level 0, or the first of two consecutive Newlines
Boundary(c, j) ==
    \/ KindAt(j) = "RightParen" /\ ParenLevel(c, j) = 0
    \/ KindAt(j) = "Newline" /\ j + 1 < Len(Tokens) /\ KindAt(j + 1) = "Newline"

FirstBoundary(c, j) == Boundary(c, j) /\ \A k \in c..(j - 1) : ~Boundary(c, k)

\* C15: message consumption started at any cursor stops at the first of a
\* RightParen at paren level 0, with the cursor left on it, and two consecutive
\* Newlines, with both consumed and the cursor after the second; the message
\* is the trimmed concatenation of the renderings of the consumed tokens.
C15_MessageBoundary ==
    (query.op = "consume_diagnostic_message" /\ query.result.st = "ok") =>
        LET c == query.cursor
            e == query.result.cursor
        IN /\ \/ KindAt(e) = "RightParen" /\ FirstBoundary(c, e)
              \/ e >= c + 2 /\ KindAt(e - 2) = "Newline" /\ FirstBoundary(c, e - 2)
           /\ query.result.message = Trim(RenderRange(Tokens, c, e))

\* the tokens at cursor c match the row of the warning kind tag
RowMatches(tag, c) ==
    \A k \in 1..Len(Rows[tag]) :
        LET t == Peak(Tokens, c, k - 1) IN
        /\ c + k - 1 < Len(Tokens)
        /\ t.kind = Rows[tag][k].kind
        /\ Rows[tag][k].str # <<>> => t.str = Rows[tag][k].str

\* the kind a warning of the row has at cursor c
RowKind(tag, c) ==
    DiagKind(tag, IF tag = "Package" THEN Peak(Tokens, c, 2).str ELSE <<>>)

\* C16: the recogniser returns a warning of kind K exactly when the previous
\* token is a Newline and the tokens at offsets 0..3 (0..5 for Font and
\* Package) match the row of K, the Whitespace at offset 1 (and 3) included;
\* when it returns no diagnostic the cursor is unchanged.
C16_WarningIffRow ==
    query.op = "consume_diag_if_diag" =>
        /\ \A tag \in WarningTags :
               (/\ query.result.st = "some"
                /\ query.result.diag.kind = RowKind(tag, query.cursor))
               <=> (/\ Peak(Tokens, query.cursor, -1).kind = "Newline"
                    /\ RowMatches(tag, query.cursor))
        /\ query.result.st = "none" => query.result.cursor = query.cursor

\* the index of the Newline or Eof that ends the line of the token at index j
RECURSIVE LineEnd(_)
LineEnd(j) == IF KindAt(j) \in {"Newline", "EOF"} THEN j ELSE LineEnd(j + 1)

\* a blank line follows index j, so that a message that runs there ends
BlankLineAfter(j) ==
    \E k \in j..(Len(Tokens) - 2) : KindAt(k) = "Newline" /\ KindAt(k + 1) = "Newline"

\* C17: for every `!` recognised as a GenericError the recogniser completes
\* and the title is the text of the line after the `!`, without the separating
\* whitespace, up to and excluding the Newline or Eof that ends the line; also
\* when the `!` is followed at once by the Newline or Eof (empty title) or by a
\* token that is no whitespace.  Stated for lines followed by a blank line.
C17_ErrorTitle ==
    (/\ query.op = "consume_diag_if_diag"
     /\ KindAt(query.cursor) = "ExclamationMark"
     /\ KindAt(query.cursor - 1) = "Newline"
     /\ BlankLineAfter(query.cursor)) =>
        LET c == query.cursor
            from == IF KindAt(c + 1) = "Whitespace" THEN c + 2 ELSE c + 1
        IN /\ query.result.st = "some"
           /\ query.result.diag.kind =
                  DiagKind("GenericError", RenderRange(Tokens, from, LineEnd(c + 1)))

(***************************************************************************)
(* Path tokens of the lexer (Lexer::consume_path), under SpecLex.          *)
(***************************************************************************)
\* the characters the claim has a path end before
ClaimedTerminators == {"(", ")", "<", ">", "[", "]", "!", "\\", " ", "\t", NL}

\* C18: path consumption stops before the first terminator after the leading
\* `/` or `./`: the string of every Path token holds none of ( ) < > [ ] ! \
\* and no whitespace, and the token after it starts on the character right
\* after the string, the terminator.
C18_PathStopsAtTerminator ==
    \A i \in 1..Len(Yielded) :
        Yielded[i].kind = "Path" =>
            /\ \A k \in 1..Len(Yielded[i].str) :
                   Yielded[i].str[k] \notin ClaimedTerminators
            /\ i < Len(Yielded) =>
                   Yielded[i + 1].pos = Yielded[i].pos + Len(Yielded[i].str)

====
